---- MODULE Spec2Model ----
(***************************************************************************)
(* Model of BERT_QA_Lecture_and_Example.ipynb: the function                *)
(* answer_question (tokenize, forward pass, argmax(start), argmax(end)+1,  *)
(* slice of input_ids, detokenize) and the driver loop that runs it over   *)
(* the three example questions.                                            *)
(*                                                                         *)
(* The tokenizer, the model and the detokenizer belong to the pretrained-  *)
(* model library.  Their outputs are the environment of the notebook's own *)
(* code: a token id sequence and two score vectors, chosen here from       *)
(* bounded sets.  Scores are integers; only their order matters to argmax. *)
(***************************************************************************)
EXTENDS Integers, Sequences, FiniteSets, TLC

\* Longest token sequence / score vector the environment produces.
MaxN ==
    3

\* Raw scores (tenths: 0.1, 0.2, 0.9); unnormalized, ties are possible.
ScoreVals ==
    {1, 2, 9}

\* Threads that may call answer_question; thread 1 also runs the driver cell.
Threads ==
    {1, 2}

\* Value of a local that has not been assigned yet.
None ==
    0 - 1

VARIABLES
    tokenizer,      \* module-level handle (line 128)
    model,          \* module-level handle (line 129)
    context,        \* module-level string (line 147)
    questions,      \* module-level list (line 153)
    pc,             \* per call frame: position in answer_question
    f_question,     \* per call frame: parameter `question`
    input_ids,      \* per call frame: local input_ids (line 178)
    start_scores,   \* per call frame: local start_scores (line 180)
    end_scores,     \* per call frame: local end_scores (line 181)
    start_index,    \* per call frame: local start_index (line 183)
    end_index,      \* per call frame: local end_index (line 184)
    rendered,       \* per call frame: the id slice handed to the renderer (line 186)
    f_answer,       \* per call frame: local answer (line 185)
    dpc,            \* driver cell: position in the for loop
    qidx,           \* driver cell: iterator position in `questions`
    question,       \* driver cell: loop variable `question`
    answer,         \* driver cell: variable `answer`
    stdout,         \* lines printed so far
    calls           \* arguments of every answer_question call made so far

globals ==
    <<tokenizer, model, context, questions>>

frames ==
    <<pc, f_question, input_ids, start_scores, end_scores, start_index,
      end_index, rendered, f_answer>>

driver ==
    <<dpc, qidx, question, answer, stdout, calls>>

vars ==
    <<tokenizer, model, context, questions, pc, f_question, input_ids,
      start_scores, end_scores, start_index, end_index, rendered, f_answer,
      dpc, qidx, question, answer, stdout, calls>>

----------------------------------------------------------------------------
\* Module-level values of the notebook.

model_name ==
    "bert-large-uncased-whole-word-masking-finetuned-squad"

TheTokenizer ==
    <<"BertTokenizer", model_name>>

TheModel ==
    <<"BertForQuestionAnswering", model_name>>

TheContext ==
    "OpenAI is an artificial intelligence research laboratory ..."

TheQuestions ==
    << "Who founded OpenAI?",
       "What is the mission of OpenAI?",
       "What technologies has OpenAI developed?" >>

----------------------------------------------------------------------------
\* Pure helpers.  Sequences are 1-indexed in TLA+; every index the code
\* computes is kept 0-based, as in Python.

Min(a, b) ==
    IF a <= b THEN a ELSE b

\* Sequences over S of length exactly n.
SeqsOfLen(S, n) ==
    [1..n -> S]

\* A token id sequence of length n: position-distinct ids, so that a slice
\* shows which positions it was cut from.
TokenIds(n) ==
    [i \in 1..n |-> 100 + i]

\* Left-to-right scan of torch.argmax over the flattened tensor: position i
\* (0-based) replaces the best so far only when its value is strictly larger.
RECURSIVE ArgmaxScan(_, _, _)
ArgmaxScan(s, i, best) ==
    IF i >= Len(s) THEN best
    ELSE IF s[i + 1] > s[best + 1] THEN ArgmaxScan(s, i + 1, i)
    ELSE ArgmaxScan(s, i + 1, best)

\* The same scan taking the last maximal position instead of the first.
ArgmaxLast(s) ==
    LET RECURSIVE Scan(_, _)
        Scan(i, best) ==
            IF i >= Len(s) THEN best
            ELSE IF s[i + 1] >= s[best + 1] THEN Scan(i + 1, i)
            ELSE Scan(i + 1, best)
    IN Scan(1, 0)

\* torch.argmax(t) of a non-empty tensor.
Argmax(s) ==
    ArgmaxScan(s, 1, 0)

\* The start index counted from 1 instead of 0.
StartIndexOneBased(ss) ==
    Argmax(ss) + 1

\* start_index = torch.argmax(start_scores)
StartIndex(ss) ==
    Argmax(ss)

\* The end index without the increment (inclusive end used as exclusive).
EndIndexNoIncrement(es) ==
    Argmax(es)

\* The end index incremented twice.
EndIndexPlusTwo(es) ==
    Argmax(es) + 2

\* end_index = torch.argmax(end_scores) + 1
EndIndex(es) ==
    Argmax(es) + 1

\* A slice that reorders its bounds when they are inverted.
PySliceReordered(ids, lo, hi) ==
    LET a == Min(lo, hi)
        b == Min(IF lo > hi THEN lo ELSE hi, Len(ids))
    IN  IF a >= b THEN << >> ELSE SubSeq(ids, a + 1, b)

\* A slice that includes position hi.
PySliceInclusive(ids, lo, hi) ==
    LET a == Min(lo, Len(ids))
        b == Min(hi + 1, Len(ids))
    IN  IF a >= b THEN << >> ELSE SubSeq(ids, a + 1, b)

\* Python's ids[lo:hi] for non-negative lo, hi: both bounds are clamped to
\* len(ids); the result is empty when lo >= hi.
PySlice(ids, lo, hi) ==
    LET a == Min(lo, Len(ids))
        b == Min(hi, Len(ids))
    IN  IF a >= b THEN << >> ELSE SubSeq(ids, a + 1, b)

\* tokenizer.convert_tokens_to_string(tokenizer.convert_ids_to_tokens(ids)):
\* the library's rendering, kept as an uninterpreted application to its
\* argument.
Detokenize(ids) ==
    <<"convert_tokens_to_string", <<"convert_ids_to_tokens", ids>>>>

----------------------------------------------------------------------------
\* The environment: what the library hands to the notebook's code.

\* All score vectors of length n.
ScoreVectors(n) ==
    SeqsOfLen(ScoreVals, n)

\* Score vectors returned by a forward pass over n tokens: a single peak at
\* one position, or a flat vector (every position tied).
ModelOutputs(n) ==
    { [i \in 1..n |-> IF i = p THEN 9 ELSE 1] : p \in 1..n } \cup { [i \in 1..n |-> 2] }

InitGlobals ==
    /\ tokenizer = TheTokenizer
    /\ model = TheModel
    /\ context = TheContext
    /\ questions = TheQuestions

----------------------------------------------------------------------------
\* answer_question, one action per statement.

\* inputs = tokenizer(question, context, return_tensors="pt")
\* input_ids = inputs["input_ids"].tolist()[0]
Tokenize(t) ==
    /\ pc[t] = "tokenize"
    /\ \E n \in 1..MaxN : input_ids' = [input_ids EXCEPT ![t] = TokenIds(n)]
    /\ pc' = [pc EXCEPT ![t] = "forward"]
    /\ UNCHANGED <<globals, driver, f_question, start_scores, end_scores,
                   start_index, end_index, rendered, f_answer>>

\* outputs = model(**inputs); start_scores / end_scores = its two logit rows,
\* one score per token of input_ids.
Forward(t) ==
    /\ pc[t] = "forward"
    /\ \E ss \in ModelOutputs(Len(input_ids[t])), es \in ModelOutputs(Len(input_ids[t])) :
          /\ start_scores' = [start_scores EXCEPT ![t] = ss]
          /\ end_scores' = [end_scores EXCEPT ![t] = es]
    /\ pc' = [pc EXCEPT ![t] = "argmax_start"]
    /\ UNCHANGED <<globals, driver, f_question, input_ids, start_index,
                   end_index, rendered, f_answer>>

\* start_index written to every frame, as if it were a module-level name.
ArgmaxStartShared(t) ==
    /\ pc[t] = "argmax_start"
    /\ Len(start_scores[t]) > 0
    /\ start_index' = [u \in Threads |-> StartIndex(start_scores[t])]
    /\ pc' = [pc EXCEPT ![t] = "argmax_end"]
    /\ UNCHANGED <<globals, driver, f_question, input_ids, start_scores,
                   end_scores, end_index, rendered, f_answer>>

\* start_index = torch.argmax(start_scores); argmax of an empty tensor raises.
ArgmaxStart(t) ==
    /\ pc[t] = "argmax_start"
    /\ IF Len(start_scores[t]) = 0
         THEN /\ pc' = [pc EXCEPT ![t] = "raised"]
              /\ UNCHANGED start_index
         ELSE /\ start_index' = [start_index EXCEPT ![t] = StartIndex(start_scores[t])]
              /\ pc' = [pc EXCEPT ![t] = "argmax_end"]
    /\ UNCHANGED <<globals, driver, f_question, input_ids, start_scores,
                   end_scores, end_index, rendered, f_answer>>

\* end_index = torch.argmax(end_scores) + 1; argmax of an empty tensor raises.
ArgmaxEnd(t) ==
    /\ pc[t] = "argmax_end"
    /\ IF Len(end_scores[t]) = 0
         THEN /\ pc' = [pc EXCEPT ![t] = "raised"]
              /\ UNCHANGED end_index
         ELSE /\ end_index' = [end_index EXCEPT ![t] = EndIndex(end_scores[t])]
              /\ pc' = [pc EXCEPT ![t] = "return"]
    /\ UNCHANGED <<globals, driver, f_question, input_ids, start_scores,
                   end_scores, start_index, rendered, f_answer>>

\* answer = tokenizer.convert_tokens_to_string(
\*     tokenizer.convert_ids_to_tokens(input_ids[start_index:end_index]))
\* return answer
Render(t) ==
    /\ pc[t] = "return"
    /\ LET ids == PySlice(input_ids[t], start_index[t], end_index[t])
       IN  /\ rendered' = [rendered EXCEPT ![t] = ids]
           /\ f_answer' = [f_answer EXCEPT ![t] = Detokenize(ids)]
    /\ pc' = [pc EXCEPT ![t] = "returned"]
    /\ UNCHANGED <<globals, driver, f_question, input_ids, start_scores,
                   end_scores, start_index, end_index>>

----------------------------------------------------------------------------
\* Span extraction on its own: lines 183-188 applied to a token sequence and
\* two score vectors drawn from the bounded sets, lengths not constrained.

InitExtract ==
    /\ InitGlobals
    /\ \E n \in 0..MaxN, ns \in 0..MaxN, ne \in 0..MaxN :
          \E ss \in ScoreVectors(ns), es \in ScoreVectors(ne) :
             /\ input_ids = [t \in Threads |-> IF t = 1 THEN TokenIds(n) ELSE << >>]
             /\ start_scores = [t \in Threads |-> IF t = 1 THEN ss ELSE << >>]
             /\ end_scores = [t \in Threads |-> IF t = 1 THEN es ELSE << >>]
    /\ pc = [t \in Threads |-> IF t = 1 THEN "argmax_start" ELSE "idle"]
    /\ f_question = [t \in Threads |-> IF t = 1 THEN TheQuestions[1] ELSE ""]
    /\ start_index = [t \in Threads |-> None]
    /\ end_index = [t \in Threads |-> None]
    /\ rendered = [t \in Threads |-> << >>]
    /\ f_answer = [t \in Threads |-> << >>]
    /\ dpc = "off" /\ qidx = 0 /\ question = "" /\ answer = << >>
    /\ stdout = << >> /\ calls = << >>

NextExtract ==
    \E t \in Threads : ArgmaxStart(t) \/ ArgmaxEnd(t) \/ Render(t)

SpecExtract ==
    InitExtract /\ [][NextExtract]_vars

----------------------------------------------------------------------------
\* Concurrent callers: every thread calls answer_question once, on any of the
\* questions, and the statements of the calls interleave freely.

AllIdle ==
    /\ pc = [t \in Threads |-> "idle"]
    /\ f_question = [t \in Threads |-> ""]
    /\ input_ids = [t \in Threads |-> << >>]
    /\ start_scores = [t \in Threads |-> << >>]
    /\ end_scores = [t \in Threads |-> << >>]
    /\ start_index = [t \in Threads |-> None]
    /\ end_index = [t \in Threads |-> None]
    /\ rendered = [t \in Threads |-> << >>]
    /\ f_answer = [t \in Threads |-> << >>]

\* answer_question(q, context) entered by thread t.
Invoke(t) ==
    /\ dpc = "off"
    /\ pc[t] = "idle"
    /\ \E i \in 1..Len(questions) :
          /\ f_question' = [f_question EXCEPT ![t] = questions[i]]
          /\ calls' = Append(calls, <<questions[i], context>>)
    /\ pc' = [pc EXCEPT ![t] = "tokenize"]
    /\ UNCHANGED <<globals, dpc, qidx, question, answer, stdout, input_ids,
                   start_scores, end_scores, start_index, end_index, rendered,
                   f_answer>>

InitConc ==
    /\ InitGlobals
    /\ AllIdle
    /\ dpc = "off" /\ qidx = 0 /\ question = "" /\ answer = << >>
    /\ stdout = << >> /\ calls = << >>

NextConc ==
    \E t \in Threads :
        \/ Invoke(t)
        \/ Tokenize(t)
        \/ Forward(t)
        \/ ArgmaxStart(t)
        \/ ArgmaxEnd(t)
        \/ Render(t)

SpecConc ==
    InitConc /\ [][NextConc]_vars

----------------------------------------------------------------------------
\* The driver cell: for question in questions: print, call, print.  It runs
\* on thread 1.

\* The loop header with the iterator never advanced.
ForNextNoAdvance ==
    /\ dpc = "for"
    /\ IF qidx < Len(questions)
         THEN /\ question' = questions[qidx + 1]
              /\ dpc' = "print_q"
         ELSE /\ dpc' = "done"
              /\ UNCHANGED question
    /\ UNCHANGED <<globals, frames, qidx, answer, stdout, calls>>

\* for question in questions: the next element is bound to `question`, or the
\* loop ends when the list is exhausted.
ForNext ==
    /\ dpc = "for"
    /\ IF qidx < Len(questions)
         THEN /\ question' = questions[qidx + 1]
              /\ qidx' = qidx + 1
              /\ dpc' = "print_q"
         ELSE /\ dpc' = "done"
              /\ UNCHANGED <<question, qidx>>
    /\ UNCHANGED <<globals, frames, answer, stdout, calls>>

\* print(f"Question: {question}")
PrintQuestion ==
    /\ dpc = "print_q"
    /\ stdout' = Append(stdout, <<"Question", question>>)
    /\ dpc' = "call"
    /\ UNCHANGED <<globals, frames, qidx, question, answer, calls>>

\* answer = answer_question(question, context): the call is entered.
Call ==
    /\ dpc = "call"
    /\ pc[1] = "idle"
    /\ f_question' = [f_question EXCEPT ![1] = question]
    /\ calls' = Append(calls, <<question, context>>)
    /\ pc' = [pc EXCEPT ![1] = "tokenize"]
    /\ dpc' = "in_call"
    /\ UNCHANGED <<globals, qidx, question, answer, stdout, input_ids,
                   start_scores, end_scores, start_index, end_index, rendered,
                   f_answer>>

\* answer = answer_question(question, context): the call returns, its value
\* is bound to `answer` and its frame is discarded.
Assign ==
    /\ dpc = "in_call"
    /\ pc[1] = "returned"
    /\ answer' = f_answer[1]
    /\ pc' = [pc EXCEPT ![1] = "idle"]
    /\ f_question' = [f_question EXCEPT ![1] = ""]
    /\ input_ids' = [input_ids EXCEPT ![1] = << >>]
    /\ start_scores' = [start_scores EXCEPT ![1] = << >>]
    /\ end_scores' = [end_scores EXCEPT ![1] = << >>]
    /\ start_index' = [start_index EXCEPT ![1] = None]
    /\ end_index' = [end_index EXCEPT ![1] = None]
    /\ rendered' = [rendered EXCEPT ![1] = << >>]
    /\ f_answer' = [f_answer EXCEPT ![1] = << >>]
    /\ dpc' = "print_a"
    /\ UNCHANGED <<globals, qidx, question, stdout, calls>>

\* print(f"Answer: {answer}\n")
PrintAnswer ==
    /\ dpc = "print_a"
    /\ stdout' = Append(stdout, <<"Answer", answer>>)
    /\ dpc' = "for"
    /\ UNCHANGED <<globals, frames, qidx, question, answer, calls>>

InitDriver ==
    /\ InitGlobals
    /\ AllIdle
    /\ dpc = "for" /\ qidx = 0 /\ question = "" /\ answer = << >>
    /\ stdout = << >> /\ calls = << >>

NextDriver ==
    \/ ForNext
    \/ PrintQuestion
    \/ Call
    \/ Tokenize(1)
    \/ Forward(1)
    \/ ArgmaxStart(1)
    \/ ArgmaxEnd(1)
    \/ Render(1)
    \/ Assign
    \/ PrintAnswer

SpecDriver ==
    InitDriver /\ [][NextDriver]_vars

\* The cell runs synchronously on one thread: whenever a statement can run,
\* it does.
FairSpecDriver ==
    SpecDriver /\ WF_vars(NextDriver)

----------------------------------------------------------------------------
\* Vocabulary of the properties, stated independently of the scan above.

\* Position i (0-based) holds a maximum of s.
IsMaxAt(s, i) ==
    \A j \in 1..Len(s) : s[j] <= s[i + 1]

\* The lowest 0-based position at which s attains its maximum.
LowestMaxIndex(s) ==
    CHOOSE i \in 0..(Len(s) - 1) :
        IsMaxAt(s, i) /\ \A j \in 0..(i - 1) : ~IsMaxAt(s, j)

\* The three sequences of frame t have one common length N >= 1.
ValidInputs(t) ==
    /\ Len(input_ids[t]) >= 1
    /\ Len(start_scores[t]) = Len(input_ids[t])
    /\ Len(end_scores[t]) = Len(input_ids[t])

\* Frame t has computed its index pair.
HasPair(t) ==
    start_index[t] # None /\ end_index[t] # None

\* C1: whenever start_index has been computed from a non-empty start_scores,
\* it is the lowest index at which start_scores attains its maximum (first
\* occurrence wins on ties).
C1_StartIsFirstMax ==
    \A t \in Threads :
        start_index[t] # None =>
            /\ Len(start_scores[t]) >= 1
            /\ start_index[t] = LowestMaxIndex(start_scores[t])

\* C1 witness: a tie between positions 1 and 2 resolved to position 1.
C1_Witness ==
    /\ start_scores[1] = <<1, 9, 9>>
    /\ start_index[1] = 1

\* C2: whenever end_index has been computed, it is one more than the lowest
\* index at which end_scores attains its maximum, whatever start_scores is.
C2_EndIsFirstMaxPlusOne ==
    \A t \in Threads :
        end_index[t] # None =>
            /\ Len(end_scores[t]) >= 1
            /\ end_index[t] = LowestMaxIndex(end_scores[t]) + 1

\* C2 witness: a tie in end_scores resolved to position 1, then incremented,
\* with the start peak elsewhere.
C2_Witness ==
    /\ end_scores[1] = <<2, 9, 9>>
    /\ start_scores[1] = <<9, 1, 1>>
    /\ end_index[1] = 2

\* C3: for two score vectors of one length N >= 1 the computed pair satisfies
\* 0 <= start < N and 0 < end <= N.
C3_IndicesInRange ==
    \A t \in Threads :
        (HasPair(t) /\ Len(start_scores[t]) = Len(end_scores[t])) =>
            LET N == Len(start_scores[t])
            IN  /\ 0 <= start_index[t] /\ start_index[t] < N
                /\ 0 < end_index[t] /\ end_index[t] <= N

\* C3 witness: both indices at the upper end of their ranges for N = 3.
C3_Witness ==
    /\ pc[1] = "returned"
    /\ Len(start_scores[1]) = 3 /\ Len(end_scores[1]) = 3
    /\ start_index[1] = 2 /\ end_index[1] = 3

\* C4: every pair computed from valid inputs of length N is a non-empty
\* half-open range, 0 <= start_index < end_index <= N.
C4_SpanNonEmpty ==
    \A t \in Threads :
        (HasPair(t) /\ ValidInputs(t)) =>
            /\ 0 <= start_index[t]
            /\ start_index[t] < end_index[t]
            /\ end_index[t] <= Len(input_ids[t])

\* The end peak lies strictly before the start peak, so start >= end.
Degenerate(t) ==
    LowestMaxIndex(start_scores[t]) >= LowestMaxIndex(end_scores[t]) + 1

\* C5: on valid inputs whose pair is degenerate (start >= end) the call raises
\* nothing and returns with the pair as computed (not clamped, not reordered)
\* and an empty id slice handed to the renderer.
C5_DegenerateReturnsEmpty ==
    \A t \in Threads :
        (ValidInputs(t) /\ Degenerate(t)) =>
            /\ pc[t] # "raised"
            /\ pc[t] = "returned" =>
                  /\ start_index[t] = LowestMaxIndex(start_scores[t])
                  /\ end_index[t] = LowestMaxIndex(end_scores[t]) + 1
                  /\ start_index[t] >= end_index[t]
                  /\ rendered[t] = << >>
                  /\ f_answer[t] = Detokenize(<< >>)

\* C5 witness: N = 3, start_scores = [0.1, 0.2, 0.9], end_scores =
\* [0.9, 0.2, 0.1]: the call has returned with the pair (2, 1).
C5_Witness ==
    /\ pc[1] = "returned"
    /\ Len(input_ids[1]) = 3
    /\ start_scores[1] = <<1, 2, 9>> /\ end_scores[1] = <<9, 2, 1>>
    /\ start_index[1] = 2 /\ end_index[1] = 1
    /\ rendered[1] = << >>

\* The inputs of frame t are empty or their three lengths disagree.
InvalidInputs(t) ==
    \/ Len(input_ids[t]) = 0
    \/ Len(start_scores[t]) # Len(input_ids[t])
    \/ Len(end_scores[t]) # Len(input_ids[t])

C7_SingleToken ==
    \A t \in Threads :
        (ValidInputs(t) /\ Len(input_ids[t]) = 1) =>
            /\ pc[t] # "raised"
            /\ start_index[t] \in {None, 0}
            /\ end_index[t] \in {None, 1}
            /\ pc[t] = "returned" => (start_index[t] = 0 /\ end_index[t] = 1)

\* C7 witness: a returned call on a single token.
C7_Witness ==
    /\ pc[1] = "returned"
    /\ Len(input_ids[1]) = 1 /\ start_scores[1] = <<9>> /\ end_scores[1] = <<1>>
    /\ start_index[1] = 0 /\ end_index[1] = 1

\* C8: on valid inputs with start peak s <= end peak e, the id slice handed to
\* the renderer is input_ids[s], ..., input_ids[e] in order: e - s + 1 ids,
\* the first from position s, the last from position e.
C8_SliceCoversPeaks ==
    \A t \in Threads :
        (pc[t] = "returned" /\ ValidInputs(t)) =>
            LET s == LowestMaxIndex(start_scores[t])
                e == LowestMaxIndex(end_scores[t])
            IN  s <= e =>
                  /\ Len(rendered[t]) = e - s + 1
                  /\ rendered[t][1] = input_ids[t][s + 1]
                  /\ rendered[t][Len(rendered[t])] = input_ids[t][e + 1]
                  /\ \A k \in 1..(e - s + 1) : rendered[t][k] = input_ids[t][s + k]

\* C8 witness: start peak at 0, end peak at 1 of three tokens; the slice is
\* the first two ids.
C8_Witness ==
    /\ pc[1] = "returned"
    /\ start_scores[1] = <<9, 2, 1>> /\ end_scores[1] = <<1, 9, 2>>
    /\ input_ids[1] = <<101, 102, 103>>
    /\ rendered[1] = <<101, 102>>

\* Frame t holds the outputs of the tokenizer and of the forward pass.
InputsBound(t) ==
    pc[t] \in {"argmax_start", "argmax_end", "return", "returned"}

\* What a call computes from (ids, ss, es) when nothing else runs.
AloneResult(ids, ss, es) ==
    LET s == LowestMaxIndex(ss)
        e == LowestMaxIndex(es) + 1
    IN  <<s, e, Detokenize(PySlice(ids, s, e))>>

\* A returned call holds exactly the result of a call run alone on its inputs.
ReturnsAloneResult ==
    \A t \in Threads :
        pc[t] = "returned" =>
            <<start_index[t], end_index[t], f_answer[t]>>
                = AloneResult(input_ids[t], start_scores[t], end_scores[t])

\* No step of any call changes a module-level handle or the inputs a call
\* in flight already holds.
NoSideEffects ==
    /\ UNCHANGED globals
    /\ \A t \in Threads :
          (InputsBound(t) /\ pc'[t] # "idle") =>
              /\ input_ids'[t] = input_ids[t]
              /\ start_scores'[t] = start_scores[t]
              /\ end_scores'[t] = end_scores[t]

\* C9: under every interleaving of concurrent calls, each call returns the
\* pair and answer it would return when run alone on the same token sequence
\* and score vectors, and no step changes the tokenizer, model, context or
\* question handles or the inputs of a call in flight.
C9_CallsIndependent ==
    []ReturnsAloneResult /\ [][NoSideEffects]_vars

\* C9 witness: thread 1 has returned while thread 2 is in mid-call, each with
\* its own inputs and its own pair.
C9_Witness ==
    /\ pc[1] = "returned" /\ pc[2] = "return"
    /\ input_ids[1] # input_ids[2]
    /\ start_index[1] = 0 /\ end_index[1] = 1
    /\ start_index[2] = 2 /\ end_index[2] = 3

\* The lines printed so far are Question, Answer, Question, ... with the
\* i-th Question line carrying the i-th question of the list.
OutputInOrder ==
    /\ Len(stdout) <= 2 * Len(TheQuestions)
    /\ \A i \in 1..Len(stdout) :
          IF i % 2 = 1
            THEN stdout[i] = <<"Question", TheQuestions[(i + 1) \div 2]>>
            ELSE stdout[i][1] = "Answer"

\* The calls made so far are the questions in list order, each with the fixed
\* context; a call is made after its Question line and before its Answer line.
CallsInOrder ==
    /\ Len(calls) <= Len(TheQuestions)
    /\ \A i \in 1..Len(calls) : calls[i] = <<TheQuestions[i], TheContext>>
    /\ Len(stdout) % 2 = 0 => Len(calls) = Len(stdout) \div 2
    /\ Len(stdout) % 2 = 1 => Len(calls) \in {Len(stdout) \div 2, Len(stdout) \div 2 + 1}
    /\ dpc = "print_a" => Len(calls) = Len(stdout) \div 2 + 1

\* The run has ended after the last answer.
DriverDone ==
    /\ dpc = "done"
    /\ Len(stdout) = 2 * Len(TheQuestions)
    /\ Len(calls) = Len(TheQuestions)

\* C10: the driver prints "Question", calls answer_question once and prints
\* "Answer" for each of the three questions in list order against the same
\* context, ends after the third answer, and never modifies the context or
\* the question list.
C10_DriverRun ==
    /\ [](OutputInOrder /\ CallsInOrder /\ (dpc = "done" => DriverDone))
    /\ [][context' = context /\ questions' = questions]_vars
    /\ <>DriverDone

\* C10 witness: the run has ended with six lines printed, the fifth being the
\* third question.
C10_Witness ==
    /\ DriverDone
    /\ stdout[1] = <<"Question", "Who founded OpenAI?">>
    /\ stdout[5] = <<"Question", "What technologies has OpenAI developed?">>
    /\ calls[3] = <<"What technologies has OpenAI developed?", TheContext>>

====
